---- MODULE Spec2Model ----
(***************************************************************************)
(* Model of app.py: the optical link budget (calcular_presupuesto), the    *)
(* KMZ/KML design parser (parsear_kmz_ftth with parse_coordinates and      *)
(* walk_folder), the session state kmz_data of the Streamlit script and    *)
(* the length histogram of the preconnectorized cables.                    *)
(*                                                                         *)
(* Python strings are sequences of one-character strings, so that upper(), *)
(* strip(), split(), "in", startswith() and endswith() are computed as     *)
(* Python computes them.  None is the model value None.                    *)
(***************************************************************************)
EXTENDS Integers, Sequences, FiniteSets, TLC

VARIABLES
    args,            \* calcular_presupuesto: the ten arguments of the last call
    resultados,      \* calcular_presupuesto: the dict it returned
    text_coords,     \* parse_coordinates: its argument
    coords,          \* parse_coordinates: the list coords it builds and returns
    pc,              \* where the script (or the function under check) is
    file_obj,        \* parsear_kmz_ftth: the archive it was called with
    data,            \* parsear_kmz_ftth: the dict of the seven collections
    stack,           \* walk_folder: one frame per call in progress
    pm,              \* walk_folder: the placemark of the current iteration
    p,               \* walk_folder: its upper-cased item path
    n_pm,            \* placemarks read from the document so far
    ret,             \* parsear_kmz_ftth: the value it returned
    exc,             \* parsear_kmz_ftth: the exception it raised
    kmz_data,        \* st.session_state.kmz_data
    kmz_file,        \* the file the uploader holds in this run, or None
    btn_clear,       \* whether the clear button is triggered in this run
    longitudes,      \* long_m of each cable of data["cables_preconect"]
    i_cable,         \* the cable the loop over them is at
    precon_counts,   \* precon_counts: label -> count
    precon_mayor_300, \* precon_mayor_300
    antes,           \* what the run before this one left (a history
                     \* variable: the script keeps no such record)
    geo_args,        \* the geometry function called and its arguments
    geo_ret,         \* what it returned, or the exception it raised
    filas_precon     \* tab 3: filas_precon, the rows of the cable report

\* Python's None, where a dict or an element is expected.
None == [py |-> "None"]

\* ------------------------------------------------------------------ bounds

\* dB quantities are fixed-point numbers: an integer v stands for v/Scale dB.
Scale == 2

\* Longest coordinate string written character by character, and the most
\* pieces a longer coordinate string is put together from.
MaxTextLen == 4

MaxPieces == 3

\* Deepest nesting of folders, and the most placemarks, in one document.
MaxDepth == 2

MaxPlacemarks == 2

\* Most preconnectorized cables in one histogram.
MaxCables == 2

\* ------------------------------------------------------- Python str helpers

LowerCase ==
    << "a", "b", "c", "d", "e", "f", "g", "h", "i", "j", "k", "l", "m",
       "n", "o", "p", "q", "r", "s", "t", "u", "v", "w", "x", "y", "z" >>

UpperCase ==
    << "A", "B", "C", "D", "E", "F", "G", "H", "I", "J", "K", "L", "M",
       "N", "O", "P", "Q", "R", "S", "T", "U", "V", "W", "X", "Y", "Z" >>

\* str.upper() on one character.
UpperChar(c) ==
    IF \E i \in 1..Len(LowerCase) : LowerCase[i] = c
    THEN UpperCase[CHOOSE i \in 1..Len(LowerCase) : LowerCase[i] = c]
    ELSE c

\* str.lower() on one character.
LowerChar(c) ==
    IF \E i \in 1..Len(UpperCase) : UpperCase[i] = c
    THEN LowerCase[CHOOSE i \in 1..Len(UpperCase) : UpperCase[i] = c]
    ELSE c

\* s.upper()
Upper(s) == [i \in 1..Len(s) |-> UpperChar(s[i])]

\* s.lower()
Lower(s) == [i \in 1..Len(s) |-> LowerChar(s[i])]

\* sub in s
Contains(s, sub) ==
    \E i \in 1..(Len(s) - Len(sub) + 1) : SubSeq(s, i, i + Len(sub) - 1) = sub

\* s.startswith(sub)
StartsWith(s, sub) ==
    Len(sub) <= Len(s) /\ SubSeq(s, 1, Len(sub)) = sub

\* s.endswith(sub)
EndsWith(s, sub) ==
    Len(sub) <= Len(s) /\ SubSeq(s, Len(s) - Len(sub) + 1, Len(s)) = sub

\* s.strip(): leading and trailing whitespace removed.
Strip(s) ==
    LET inked == {i \in 1..Len(s) : s[i] /= " "}
        lo == CHOOSE i \in inked : \A j \in inked : i <= j
        hi == CHOOSE i \in inked : \A j \in inked : j <= i
    IN  IF inked = {} THEN << >> ELSE SubSeq(s, lo, hi)

\* s.split(sep): the pieces between the separators, empty pieces kept.
RECURSIVE SplitOn(_, _)
SplitOn(s, sep) ==
    IF \A i \in 1..Len(s) : s[i] /= sep
    THEN << s >>
    ELSE LET k == CHOOSE i \in 1..Len(s) :
                      s[i] = sep /\ \A j \in 1..(i - 1) : s[j] /= sep
         IN  << SubSeq(s, 1, k - 1) >> \o SplitOn(SubSeq(s, k + 1, Len(s)), sep)

\* s.split(): the pieces between runs of whitespace, no empty piece.
SplitWs(s) == SelectSeq(SplitOn(s, " "), LAMBDA t : t /= << >>)

Digits == << "0", "1", "2", "3", "4", "5", "6", "7", "8", "9" >>

IsDigit(c) == \E i \in 1..Len(Digits) : Digits[i] = c

DigitVal(c) == (CHOOSE i \in 1..Len(Digits) : Digits[i] = c) - 1

RECURSIVE NatVal(_)
NatVal(s) ==
    IF s = << >> THEN 0
    ELSE 10 * NatVal(SubSeq(s, 1, Len(s) - 1)) + DigitVal(s[Len(s)])

\* float(s) raises ValueError.  Over the characters the model writes
\* coordinates with (digits, "-", "x") float() accepts exactly an optional
\* sign followed by at least one digit.
FloatRaises(s) ==
    LET body == IF s /= << >> /\ s[1] = "-" THEN Tail(s) ELSE s
    IN  body = << >> \/ \E i \in 1..Len(body) : ~IsDigit(body[i])

\* float(s) when it does not raise.
Float(s) ==
    IF s[1] = "-" THEN 0 - NatVal(Tail(s)) ELSE NatVal(s)

\* ------------------------------------------------- calcular_presupuesto

\* The literal x of the source, in dB, as a fixed-point number.
DB(x) == x * Scale

\* perd_total, with the splitters left out of the sum.
perd_total_sin_splitters(perd_fibra, perd_empalmes_total, perd_conectores_total, perd_splitters_total) ==
    perd_fibra + perd_empalmes_total + perd_conectores_total

\* perd_total = perd_fibra + perd_empalmes_total + perd_conectores_total
\*              + perd_splitters_total
perd_total_de(perd_fibra, perd_empalmes_total, perd_conectores_total, perd_splitters_total) ==
    perd_fibra + perd_empalmes_total
    + perd_conectores_total + perd_splitters_total

\* The classification with both boundaries taken strictly.
clasificar_enlace_estricto(margen) ==
    IF margen > DB(3)
    THEN [estado |-> "OK", color |-> "green"]
    ELSE IF 0 < margen /\ margen < DB(3)
         THEN [estado |-> "AL LIMITE", color |-> "orange"]
         ELSE [estado |-> "FUERA DE RANGO", color |-> "red"]

\* if margen >= 3 / elif 0 <= margen < 3 / else
clasificar_enlace(margen) ==
    IF margen >= DB(3)
    THEN [estado |-> "OK", color |-> "green"]
    ELSE IF 0 <= margen /\ margen < DB(3)
         THEN [estado |-> "AL LIMITE", color |-> "orange"]
         ELSE [estado |-> "FUERA DE RANGO", color |-> "red"]

\* The returned dict (its free-text "comentario" follows estado and is
\* left out).
calcular_presupuesto(dist_total_km, pot_olt_dbm, sens_ont_dbm, atenuacion_db_km, n_empalmes, n_conectores, perd_empalme_db, perd_conector_db, perd_splitter_nap_db, perd_splitter_cto_db) ==
    LET perd_fibra == dist_total_km * atenuacion_db_km
        perd_empalmes_total == n_empalmes * perd_empalme_db
        perd_conectores_total == n_conectores * perd_conector_db
        perd_splitters_total == perd_splitter_nap_db + perd_splitter_cto_db
        perd_total == perd_total_de(perd_fibra, perd_empalmes_total,
                                    perd_conectores_total, perd_splitters_total)
        pot_ont == pot_olt_dbm - perd_total
        margen == pot_ont - sens_ont_dbm
        clase == clasificar_enlace(margen)
    IN  [ perd_fibra |-> perd_fibra,
          perd_empalmes |-> perd_empalmes_total,
          perd_conectores |-> perd_conectores_total,
          perd_splitters |-> perd_splitters_total,
          perd_total |-> perd_total,
          pot_ont |-> pot_ont,
          margen |-> margen,
          estado |-> clase.estado,
          color |-> clase.color ]

\* ----------------------------------------------------- parse_coordinates

\* The loop of parse_coordinates over the tokens, with lat and lon swapped.
RECURSIVE parse_tokens_swapped(_)
parse_tokens_swapped(tokens) ==
    IF tokens = << >> THEN << >>
    ELSE LET parts == SplitOn(Head(tokens), ",")
             rest == parse_tokens_swapped(Tail(tokens))
         IN  IF Len(parts) >= 2
             THEN IF FloatRaises(parts[1]) \/ FloatRaises(parts[2])
                  THEN rest
                  ELSE << << Float(parts[1]), Float(parts[2]) >> >> \o rest
             ELSE rest

\* The loop of parse_coordinates over the tokens: a token contributes
\* [lat, lon] when it has two fields or more and float() takes the first two.
RECURSIVE parse_tokens(_)
parse_tokens(tokens) ==
    IF tokens = << >> THEN << >>
    ELSE LET parts == SplitOn(Head(tokens), ",")
             rest == parse_tokens(Tail(tokens))
         IN  IF Len(parts) >= 2
             THEN IF FloatRaises(parts[1]) \/ FloatRaises(parts[2])
                  THEN rest
                  ELSE << << Float(parts[2]), Float(parts[1]) >> >> \o rest
             ELSE rest

parse_coordinates(text) ==
    IF text = << >> THEN << >> ELSE parse_tokens(SplitWs(Strip(text)))

\* ------------------------------------------------------ parsear_kmz_ftth

\* The string literals of the parser.
S_CAJAS_NAP ==
    << "C", "A", "J", "A", "S", " ", "N", "A", "P" >>

S_SLASH_NAP ==
    << "/", "N", "A", "P" >>

S_SLASH_NAP_SLASH ==
    << "/", "N", "A", "P", "/" >>

S_CAJAS_HUB ==
    << "C", "A", "J", "A", "S", " ", "H", "U", "B" >>

S_SLASH_HUB ==
    << "/", "H", "U", "B" >>

S_SLASH_HUB_SLASH ==
    << "/", "H", "U", "B", "/" >>

S_FOSC ==
    << "F", "O", "S", "C" >>

S_BOTELLA ==
    << "B", "O", "T", "E", "L", "L", "A" >>

S_SLASH_NODO ==
    << "/", "N", "O", "D", "O" >>

S_NODO ==
    << "N", "O", "D", "O" >>

S_SPACE_NODO ==
    << " ", "N", "O", "D", "O" >>

S_SLASH_NODOS ==
    << "/", "N", "O", "D", "O", "S" >>

S_CABLES_TRONCALES ==
    << "C", "A", "B", "L", "E", "S", " ", "T", "R", "O", "N", "C", "A", "L", "E", "S" >>

S_TRONCAL ==
    << "T", "R", "O", "N", "C", "A", "L" >>

S_CABLES_DERIVACIONES ==
    << "C", "A", "B", "L", "E", "S", " ", "D", "E", "R", "I", "V", "A", "C", "I", "O", "N", "E", "S" >>

S_DERIV ==
    << "D", "E", "R", "I", "V" >>

S_CABLES_PRECONECTORIZADOS ==
    << "C", "A", "B", "L", "E", "S", " ", "P", "R", "E", "C", "O", "N", "E", "C", "T", "O", "R", "I", "Z", "A", "D", "O", "S" >>

S_PRECO ==
    << "P", "R", "E", "C", "O" >>

S_DOT_KML ==
    << ".", "k", "m", "l" >>

\* data = {"nodo": [], "cables_troncales": [], ...}
data_vacio ==
    [ nodo |-> << >>,
      cables_troncales |-> << >>,
      cables_derivaciones |-> << >>,
      cables_preconect |-> << >>,
      cajas_hub |-> << >>,
      cajas_nap |-> << >>,
      botellas |-> << >> ]

\* for info in zf.infolist(): the first name whose lower-cased form ends in
\* ".kml", or None when there is none (<< >> stands for kml_name = None;
\* an entry's name is never empty).
kml_name_de(names) ==
    LET hits == {i \in 1..Len(names) : EndsWith(Lower(names[i]), S_DOT_KML)}
    IN  IF hits = {} THEN << >>
        ELSE names[CHOOSE i \in hits : \A j \in hits : i <= j]

\* get_text(elem): elem.text.strip() if elem is not None and elem.text
\* else "".  An element is None or [text |-> string]; the empty string
\* stands for a text that is None or empty, which get_text treats alike.
get_text(elem) ==
    IF elem /= None /\ elem.text /= << >> THEN Strip(elem.text) ELSE << >>

\* new_path = f"{path}/{folder_name}" if path else folder_name
new_path_de(path, folder_name) ==
    IF path /= << >> THEN path \o << "/" >> \o folder_name ELSE folder_name

\* pm_path = f"{new_path}/{pm_name}" if new_path else pm_name
pm_path_de(new_path, pm_name) ==
    IF new_path /= << >> THEN new_path \o << "/" >> \o pm_name ELSE pm_name

\* The NAP test taken as "NAP" anywhere in the path.
es_caja_nap_laxo(q) ==
    Contains(q, << "N", "A", "P" >>)

\* "CAJAS NAP" in p or p.endswith("/NAP") or "/NAP/" in p
es_caja_nap(q) ==
    \/ Contains(q, S_CAJAS_NAP)
    \/ EndsWith(q, S_SLASH_NAP)
    \/ Contains(q, S_SLASH_NAP_SLASH)

\* "CAJAS HUB" in p or p.endswith("/HUB") or "/HUB/" in p
es_caja_hub(q) ==
    \/ Contains(q, S_CAJAS_HUB)
    \/ EndsWith(q, S_SLASH_HUB)
    \/ Contains(q, S_SLASH_HUB_SLASH)

\* "FOSC" in p or "BOTELLA" in p
es_botella(q) ==
    Contains(q, S_FOSC) \/ Contains(q, S_BOTELLA)

\* "/NODO" in p or p.startswith("NODO") or " NODO" in p
\* or p.endswith("/NODOS")
es_nodo(q) ==
    \/ Contains(q, S_SLASH_NODO)
    \/ StartsWith(q, S_NODO)
    \/ Contains(q, S_SPACE_NODO)
    \/ EndsWith(q, S_SLASH_NODOS)

\* The if / elif chain of the point branch with the HUB test moved first.
coleccion_punto_hub_primero(q) ==
    IF es_caja_hub(q) THEN "cajas_hub"
    ELSE IF es_caja_nap(q) THEN "cajas_nap"
    ELSE IF es_botella(q) THEN "botellas"
    ELSE IF es_nodo(q) THEN "nodo"
    ELSE "nodo"

\* The if / elif chain of the point branch: the key of data the punto is
\* appended to.
coleccion_punto(q) ==
    IF es_caja_nap(q) THEN "cajas_nap"
    ELSE IF es_caja_hub(q) THEN "cajas_hub"
    ELSE IF es_botella(q) THEN "botellas"
    ELSE IF es_nodo(q) THEN "nodo"
    ELSE "nodo"

\* The if / elif chain of the line branch with the PRECO test moved first.
coleccion_cable_preco_primero(q) ==
    IF Contains(q, S_CABLES_PRECONECTORIZADOS) \/ Contains(q, S_PRECO)
    THEN "cables_preconect"
    ELSE IF Contains(q, S_CABLES_TRONCALES) \/ Contains(q, S_TRONCAL)
    THEN "cables_troncales"
    ELSE IF Contains(q, S_CABLES_DERIVACIONES) \/ Contains(q, S_DERIV)
    THEN "cables_derivaciones"
    ELSE "cables_troncales"

\* The if / elif chain of the line branch: the key of data the cable is
\* appended to.
coleccion_cable(q) ==
    IF Contains(q, S_CABLES_TRONCALES) \/ Contains(q, S_TRONCAL)
    THEN "cables_troncales"
    ELSE IF Contains(q, S_CABLES_DERIVACIONES) \/ Contains(q, S_DERIV)
    THEN "cables_derivaciones"
    ELSE IF Contains(q, S_CABLES_PRECONECTORIZADOS) \/ Contains(q, S_PRECO)
    THEN "cables_preconect"
    ELSE "cables_troncales"

\* p = pm_path.upper() for the placemark pmk of a folder whose path is
\* new_path.
p_de(new_path, pmk) ==
    Upper(pm_path_de(new_path, get_text(pmk.name)))

\* The iteration without the "continue" that ends the point branch: a
\* placemark with a Point is looked at as a line as well.
procesar_placemark_sin_continue(d, new_path, pmk) ==
    LET pm_name == get_text(pmk.name)
        q == p_de(new_path, pmk)
        coords_punto == IF pmk.point /= None
                        THEN parse_coordinates(get_text(pmk.point.coordinates))
                        ELSE << >>
        coords_linea == IF pmk.lines /= << >>
                        THEN parse_coordinates(get_text(pmk.lines[1].coordinates))
                        ELSE << >>
        d_punto == IF coords_punto /= << >>
                   THEN [d EXCEPT ![coleccion_punto(q)] =
                             Append(@, [ name |-> pm_name,
                                         lat |-> coords_punto[1][1],
                                         lon |-> coords_punto[1][2] ])]
                   ELSE d
    IN  IF coords_linea /= << >>
        THEN [d_punto EXCEPT ![coleccion_cable(q)] =
                 Append(@, [name |-> pm_name, coords |-> coords_linea])]
        ELSE d_punto

\* One iteration of "for pm in folder_elem.findall("k:Placemark", ns)":
\* data after it.  A placemark is [name, point, lines]: its name element,
\* its first Point descendant (None, or [coordinates |-> element]) and its
\* LineString descendants in document order; pm.find(".//k:LineString")
\* is the first of them.
procesar_placemark(d, new_path, pmk) ==
    LET pm_name == get_text(pmk.name)
        q == p_de(new_path, pmk)
    IN  IF pmk.point /= None
        THEN LET coords_list ==
                     parse_coordinates(get_text(pmk.point.coordinates))
                 punto == [ name |-> pm_name,
                            lat |-> coords_list[1][1],
                            lon |-> coords_list[1][2] ]
             IN  IF coords_list /= << >>
                 THEN [d EXCEPT ![coleccion_punto(q)] = Append(@, punto)]
                 ELSE d
        ELSE IF pmk.lines /= << >>
        THEN LET line == pmk.lines[1]
                 coords_list == parse_coordinates(get_text(line.coordinates))
                 cable == [name |-> pm_name, coords |-> coords_list]
             IN  IF coords_list /= << >>
                 THEN [d EXCEPT ![coleccion_cable(q)] = Append(@, cable)]
                 ELSE d
        ELSE d

\* ------------------------------------------------- tab 2: the histogram

\* The literal x of the source, in metres, as a fixed-point number: long_m
\* is a float, and an integer v stands for v/Scale metres.
M(x) == x * Scale

buckets_precon ==
    << [label |-> "0 a 50 m - CABLE DE 50", lo |-> 0, hi |-> 50],
       [label |-> "51 a 100 m - CABLE DE 100", lo |-> 51, hi |-> 100],
       [label |-> "101 a 150 m - CABLE DE 150", lo |-> 101, hi |-> 150],
       [label |-> "151 a 200 m - CABLE DE 200", lo |-> 151, hi |-> 200],
       [label |-> "201 a 250 m - CABLE DE 250", lo |-> 201, hi |-> 250],
       [label |-> "251 a 300 m - CABLE DE 300", lo |-> 251, hi |-> 300] >>

Labels == {buckets_precon[k].label : k \in 1..Len(buckets_precon)}

\* precon_counts = {label: 0 for (label, _, _) in buckets_precon}
precon_counts_cero == [l \in Labels |-> 0]

\* The body of "for cable in data["cables_preconect"]" for a cable of
\* length long_m: the first bucket with lo <= long_m <= hi is counted, and
\* a cable no bucket took is counted in precon_mayor_300 if long_m > 300.
contar_cable(counts, mayor_300, long_m) ==
    LET hits == {k \in 1..Len(buckets_precon) :
                     /\ M(buckets_precon[k].lo) <= long_m
                     /\ long_m <= M(buckets_precon[k].hi)}
        first == CHOOSE k \in hits : \A j \in hits : k <= j
        asignado == hits /= {}
    IN  [ counts |-> IF asignado
                     THEN [counts EXCEPT ![buckets_precon[first].label] = @ + 1]
                     ELSE counts,
          mayor_300 |-> IF ~asignado /\ long_m > M(300)
                        THEN mayor_300 + 1
                        ELSE mayor_300 ]

\* ------------------------------------------------ floats of the geometry

\* A float of the geometry functions is a binary floating-point number with
\* a significand of Prec bits (Python's has 53) whose least step is 1/Unit:
\* the integer n stands for n/Unit.  Every arithmetic operation returns the
\* representable number nearest to the exact result, ties to even, as
\* IEEE-754 arithmetic does.
Prec == 9

Unit == 256

RECURSIVE BitLen(_)
BitLen(n) == IF n = 0 THEN 0 ELSE 1 + BitLen(n \div 2)

\* The integer nearest to n/d, ties to even (n >= 0, d > 0).
RoundDiv(n, d) ==
    LET q == n \div d
        r == n % d
    IN  IF 2 * r > d \/ (2 * r = d /\ q % 2 = 1) THEN q + 1 ELSE q

\* The float nearest to n/(d * Unit), for n >= 0.
FlAbs(n, d) ==
    LET bits == BitLen(n \div d)
        sh == IF bits > Prec THEN bits - Prec ELSE 0
    IN  RoundDiv(n, d * 2^sh) * 2^sh

\* The float nearest to n/(d * Unit).
Fl(n, d) == IF n < 0 THEN 0 - FlAbs(0 - n, d) ELSE FlAbs(n, d)

\* The float literal k.0
F(k) == Fl(k * Unit, 1)

\* x + y
FAdd(x, y) == Fl(x + y, 1)

\* x - y
FSub(x, y) == Fl(x - y, 1)

\* x * y
FMul(x, y) == Fl(x * y, Unit)

\* math.sqrt(x) for x >= 0: the float nearest to the root.
FSqrt(x) ==
    Fl(CHOOSE r \in 0..(x + Unit) :
           /\ 4 * x * Unit < (2 * r + 1) * (2 * r + 1)
           /\ r = 0 \/ (2 * r - 1) * (2 * r - 1) < 4 * x * Unit, 1)

\* An angle is held in whole degrees: math.radians only changes the unit.
\* math.sin of an angle of x degrees, for the angles met between the points
\* of the model.
Sin(x) ==
    CASE x = 0 -> 0
      [] x = 30 -> 128
      [] x = 0 - 30 -> 0 - 128
      [] x = 41 -> 168
      [] x = 0 - 41 -> 0 - 168
      [] x = 60 -> 222
      [] x = 0 - 60 -> 0 - 222
      [] x = 82 -> 254
      [] x = 0 - 82 -> 0 - 254
      [] x = 90 -> 256
      [] x = 0 - 90 -> 0 - 256
      [] x = 120 -> 222
      [] x = 0 - 120 -> 0 - 222

\* math.cos of an angle of x degrees, for the latitudes of the model.
Cos(x) ==
    CASE x = 0 -> 256
      [] x = 82 -> 36
      [] x = 0 - 82 -> 36

\* math.atan2(y, x), for the arguments met between the points of the model.
Atan2(y, x) ==
    CASE y = 0 /\ x = 256 -> 0
      [] y = 128 /\ x = 222 -> 134
      [] y = 168 /\ x = 193 -> 183
      [] y = 175 /\ x = 187 -> 193
      [] y = 187 /\ x = 175 -> 210
      [] y = 193 /\ x = 168 -> 219
      [] y = 222 /\ x = 127 -> 269

\* A call that returned v, and a call that raised the exception e.
Return(v) == [exc |-> "none", val |-> v]

Raise(e) == [exc |-> e, val |-> None]

\* --------------------------------------------------- geometry functions

\* distancia_haversine_km(lat1, lon1, lat2, lon2).  dphi / 2 and
\* dlambda / 2 are the halves of the differences in degrees (the points of
\* the model differ by even numbers of degrees); math.sqrt raises
\* ValueError on a negative argument, and nothing brings a or 1 - a back
\* into [0, 1] before it.
distancia_haversine_km(lat1, lon1, lat2, lon2) ==
    LET R == F(6371)
        dphi_2 == (lat2 - lat1) \div 2
        dlambda_2 == (lon2 - lon1) \div 2
        a == FAdd(FMul(Sin(dphi_2), Sin(dphi_2)),
                  FMul(FMul(Cos(lat1), Cos(lat2)),
                       FMul(Sin(dlambda_2), Sin(dlambda_2))))
    IN  IF a < 0 \/ FSub(F(1), a) < 0
        THEN Raise("ValueError")
        ELSE Return(FMul(R, FMul(F(2), Atan2(FSqrt(a), FSqrt(FSub(F(1), a))))))

\* total after the first k iterations of "for i in range(len(coords) - 1)",
\* or the exception that ended the loop.
RECURSIVE total_tras(_, _)
total_tras(coords_, k) ==
    IF k = 0 THEN Return(0)
    ELSE LET total == total_tras(coords_, k - 1)
             d == distancia_haversine_km(coords_[k][1], coords_[k][2],
                                         coords_[k + 1][1], coords_[k + 1][2])
         IN  IF total.exc /= "none" THEN total
             ELSE IF d.exc /= "none" THEN d
             ELSE Return(FAdd(total.val, d.val))

\* longitud_total_km(coords)
longitud_total_km(coords_) ==
    IF Len(coords_) < 2 THEN Return(0)
    ELSE total_tras(coords_, Len(coords_) - 1)

\* A float that may be None.
Num(x) == [float |-> x]

\* "for nap in cajas_nap" from the k-th box on, with min_dist and mejor as
\* the iterations before it left them: the pair returned, or the exception
\* that ended the loop.
RECURSIVE nap_desde(_, _, _, _, _, _)
nap_desde(lat, lon, cajas_nap, k, min_dist, mejor) ==
    IF k > Len(cajas_nap) THEN Return(<< mejor, min_dist >>)
    ELSE LET nap == cajas_nap[k]
             d == distancia_haversine_km(lat, lon, nap.lat, nap.lon)
         IN  IF d.exc /= "none" THEN d
             ELSE IF min_dist = None \/ d.val < min_dist.float
             THEN nap_desde(lat, lon, cajas_nap, k + 1, Num(d.val), nap)
             ELSE nap_desde(lat, lon, cajas_nap, k + 1, min_dist, mejor)

\* nap_mas_cercana(lat, lon, cajas_nap)
nap_mas_cercana(lat, lon, cajas_nap) ==
    IF cajas_nap = << >> THEN Return(<< None, None >>)
    ELSE nap_desde(lat, lon, cajas_nap, 1, None, None)

\* ------------------------------------------------------------ state groups

budgetVars == << args, resultados >>

coordVars == << text_coords, coords >>

parseVars == << file_obj, data, stack, pm, p, n_pm, ret, exc >>

sessionVars == << kmz_data, kmz_file, btn_clear, antes >>

histVars == << longitudes, i_cable, precon_counts, precon_mayor_300 >>

geoVars == << geo_args, geo_ret, filas_precon >>

vars ==
    << args, resultados, text_coords, coords, pc,
       file_obj, data, stack, pm, p, n_pm, ret, exc,
       kmz_data, kmz_file, btn_clear, antes,
       longitudes, i_cable, precon_counts, precon_mayor_300,
       geo_args, geo_ret, filas_precon >>

BudgetIdle == args = None /\ resultados = None

CoordsIdle == text_coords = << >> /\ coords = << >>

ParseIdle ==
    /\ file_obj = None
    /\ data = data_vacio
    /\ stack = << >>
    /\ pm = None
    /\ p = << >>
    /\ n_pm = 0
    /\ ret = None
    /\ exc = "none"

\* No run came before the first one.
AntesNada == [modelo |-> FALSE, limpiado |-> FALSE, mismo |-> FALSE]

SessionIdle ==
    /\ kmz_data = None
    /\ kmz_file = None
    /\ btn_clear = FALSE
    /\ antes = AntesNada

HistIdle ==
    /\ longitudes = << >>
    /\ i_cable = 1
    /\ precon_counts = precon_counts_cero
    /\ precon_mayor_300 = 0

GeoIdle == geo_args = None /\ geo_ret = None /\ filas_precon = << >>

\* ------------------------------------------- specification: link budget

Distancias == {0 - 1, 0, 2}

Potencias == {0, DB(3)}

Sensibilidades == {0 - DB(3), 0 - 1, 0}

Atenuaciones == {0, 1}

Cantidades == {0 - 1, 0, 2}

Perdidas == {0, 1}

\* One call of calcular_presupuesto, as tab 1 makes on every script run,
\* with whatever numbers the widgets hold.
Calcular ==
    /\ pc = "tab1"
    /\ pc' = "tab1_shown"
    /\ UNCHANGED << coordVars, parseVars, sessionVars, histVars, geoVars >>
    /\ \E dist_total_km \in Distancias, pot_olt_dbm \in Potencias,
       sens_ont_dbm \in Sensibilidades, atenuacion_db_km \in Atenuaciones,
       n_empalmes \in Cantidades, n_conectores \in {0, 1},
       perd_empalme_db \in Perdidas, perd_conector_db \in Perdidas,
       perd_splitter_nap_db \in {0, 3}, perd_splitter_cto_db \in {0 - 1, 0} :
        /\ args' = [ dist_total_km |-> dist_total_km,
                     pot_olt_dbm |-> pot_olt_dbm,
                     sens_ont_dbm |-> sens_ont_dbm,
                     atenuacion_db_km |-> atenuacion_db_km,
                     n_empalmes |-> n_empalmes,
                     n_conectores |-> n_conectores,
                     perd_empalme_db |-> perd_empalme_db,
                     perd_conector_db |-> perd_conector_db,
                     perd_splitter_nap_db |-> perd_splitter_nap_db,
                     perd_splitter_cto_db |-> perd_splitter_cto_db ]
        /\ resultados' =
               calcular_presupuesto(dist_total_km, pot_olt_dbm, sens_ont_dbm,
                                    atenuacion_db_km, n_empalmes, n_conectores,
                                    perd_empalme_db, perd_conector_db,
                                    perd_splitter_nap_db, perd_splitter_cto_db)

\* The next script run: the locals of the last one are gone.
RerunTab1 ==
    /\ pc = "tab1_shown"
    /\ pc' = "tab1"
    /\ args' = None
    /\ resultados' = None
    /\ UNCHANGED << coordVars, parseVars, sessionVars, histVars, geoVars >>

InitBudget ==
    /\ BudgetIdle /\ CoordsIdle /\ ParseIdle /\ SessionIdle /\ HistIdle
    /\ GeoIdle
    /\ pc = "tab1"

NextBudget == Calcular \/ RerunTab1

SpecBudget == InitBudget /\ [][NextBudget]_vars

\* C1: every margin gets exactly one status, OK iff margin >= 3 dB,
\* AL LIMITE iff 0 <= margin < 3 dB, FUERA DE RANGO iff margin < 0; so a
\* margin of exactly 3 dB is OK and a margin of exactly 0 is AL LIMITE.
C1_StatusBoundaries ==
    resultados /= None =>
        /\ resultados.estado \in {"OK", "AL LIMITE", "FUERA DE RANGO"}
        /\ resultados.estado = "OK" <=> resultados.margen >= DB(3)
        /\ resultados.estado = "AL LIMITE" <=>
               (0 <= resultados.margen /\ resultados.margen < DB(3))
        /\ resultados.estado = "FUERA DE RANGO" <=> resultados.margen < 0

\* A call whose margin is exactly 3 dB was classified OK.
C1_Witness ==
    /\ resultados /= None
    /\ resultados.margen = DB(3)
    /\ resultados.estado = "OK"

\* C2: whatever the ten numbers are, negative ones included, the call
\* returns a result, and its fields are the stated products, sums and
\* differences of the arguments.
C2_LossDecomposition ==
    args /= None =>
        /\ resultados /= None
        /\ resultados.perd_fibra = args.dist_total_km * args.atenuacion_db_km
        /\ resultados.perd_empalmes = args.n_empalmes * args.perd_empalme_db
        /\ resultados.perd_conectores =
               args.n_conectores * args.perd_conector_db
        /\ resultados.perd_splitters =
               args.perd_splitter_nap_db + args.perd_splitter_cto_db
        /\ resultados.perd_total =
               resultados.perd_fibra + resultados.perd_empalmes
               + resultados.perd_conectores + resultados.perd_splitters
        /\ resultados.pot_ont = args.pot_olt_dbm - resultados.perd_total
        /\ resultados.margen = resultados.pot_ont - args.sens_ont_dbm

\* A call with a negative distance and a negative splice count returned a
\* result with a negative fibre loss and non-zero splitter loss.
C2_Witness ==
    /\ args /= None
    /\ args.dist_total_km < 0
    /\ args.n_empalmes < 0
    /\ resultados.perd_fibra < 0
    /\ resultados.perd_splitters > 0

\* ------------------------------------- specification: parse_coordinates

\* The characters coordinate strings are written with.
CoordChars == {"1", "2", "-", ",", " ", "x"}

\* Every string over CoordChars of at most n characters.
TextsUpTo(n) == UNION {[1..k -> CoordChars] : k \in 0..n}

\* One call of parse_coordinates on the string text_coords.
ParseCoordinates ==
    /\ pc = "parse_coordinates"
    /\ coords' = parse_coordinates(text_coords)
    /\ pc' = "returned"
    /\ UNCHANGED << text_coords, budgetVars, parseVars, sessionVars, histVars, geoVars >>

\* Longer strings: pieces (coordinate tuples, whole or broken) put one
\* after the other with a blank between them.
Pieces ==
    { << "1", ",", "2" >>, << "2", ",", "1", ",", "1" >>,
      << "-", "1", ",", "-", "2" >>, << "1", "2", ",", "x" >>,
      << "x" >>, << "1" >>, << ",", "2" >>, << "1", ",", ",", "2" >>,
      << " " >>, << >> }

RECURSIVE Join(_)
Join(ps) ==
    IF ps = << >> THEN << >>
    ELSE IF Len(ps) = 1 THEN ps[1]
    ELSE ps[1] \o << " " >> \o Join(Tail(ps))

JoinedTexts(n) == {Join(ps) : ps \in UNION {[1..k -> Pieces] : k \in 1..n}}

InitCoords ==
    /\ BudgetIdle
    /\ ParseIdle
    /\ SessionIdle
    /\ HistIdle
    /\ GeoIdle
    /\ text_coords \in TextsUpTo(MaxTextLen) \cup JoinedTexts(MaxPieces)
    /\ coords = << >>
    /\ pc = "parse_coordinates"

NextCoords == ParseCoordinates

SpecCoords == InitCoords /\ [][NextCoords]_vars

\* The positions where a whitespace-separated token of s starts.
TokenStarts(s) ==
    {i \in 1..Len(s) : s[i] /= " " /\ (i = 1 \/ s[i - 1] = " ")}

\* The token of s that starts at position i.
TokenAt(s, i) ==
    LET last == CHOOSE j \in i..Len(s) :
                    /\ \A k \in i..j : s[k] /= " "
                    /\ (j = Len(s) \/ s[j + 1] = " ")
    IN  SubSeq(s, i, last)

\* The positions of the commas of token t, and its first two fields.
Commas(t) == {i \in 1..Len(t) : t[i] = ","}

FirstComma(t) == CHOOSE i \in Commas(t) : \A j \in Commas(t) : i <= j

FieldOne(t) == SubSeq(t, 1, FirstComma(t) - 1)

FieldTwo(t) ==
    LET after == {i \in Commas(t) : i > FirstComma(t)}
        stop == IF after = {} THEN Len(t) + 1
                ELSE CHOOSE i \in after : \A j \in after : i <= j
    IN  SubSeq(t, FirstComma(t) + 1, stop - 1)

\* A field is numeric: an optional minus sign, then digits and nothing else.
Numeric(f) ==
    \/ /\ Len(f) >= 1
       /\ \A i \in 1..Len(f) : IsDigit(f[i])
    \/ /\ Len(f) >= 2
       /\ f[1] = "-"
       /\ \A i \in 2..Len(f) : IsDigit(f[i])

NumberOf(f) == IF f[1] = "-" THEN 0 - NatVal(Tail(f)) ELSE NatVal(f)

\* The token has two fields or more and its first two are numeric.
WellFormed(t) ==
    Commas(t) /= {} /\ Numeric(FieldOne(t)) /\ Numeric(FieldTwo(t))

KeptStarts(s) == {i \in TokenStarts(s) : WellFormed(TokenAt(s, i))}

\* The start of the k-th well-formed token of s, in source order.
KeptStart(s, k) ==
    CHOOSE i \in KeptStarts(s) :
        Cardinality({j \in KeptStarts(s) : j < i}) = k - 1

\* C8: parse_coordinates returns, in source order, one (lat, lon) pair for
\* each whitespace-separated token with two comma-separated fields or more
\* whose first two are numeric, lat from the second field and lon from the
\* first, and nothing for any other token.
C8_ParseCoordinates ==
    pc = "returned" =>
        /\ Len(coords) = Cardinality(KeptStarts(text_coords))
        /\ \A k \in 1..Len(coords) :
               LET t == TokenAt(text_coords, KeptStart(text_coords, k))
               IN  coords[k] = << NumberOf(FieldTwo(t)), NumberOf(FieldOne(t)) >>

\* A string with a malformed token between two well-formed ones was parsed
\* into the two pairs, in source order and with the axes swapped.
C8_Witness ==
    /\ pc = "returned"
    /\ coords = << << 2, 1 >>, << 0 - 2, 0 - 1 >> >>
    /\ Cardinality(TokenStarts(text_coords)) = 3

\* ------------------------------------------ specification: one parse

\* An XML element with the text s.
Elem(s) == [text |-> s]

\* The archives: whether the bytes are a zip archive at all, the names of
\* its entries in order, whether the payload of its first .kml entry is
\* well-formed XML, and the vocabulary its document is written with.
Archivo(zip_ok, names, xml_ok, vocab) ==
    [zip_ok |-> zip_ok, names |-> names, xml_ok |-> xml_ok, vocab |-> vocab]

N_A_TXT == << "a", ".", "t", "x", "t" >>

N_DOC_KML == << "D", "o", "c", ".", "K", "M", "L" >>

N_KML == << "k", "m", "l" >>

ArchivosMalos ==
    { Archivo(FALSE, << >>, FALSE, "mini"),
      Archivo(TRUE, << >>, TRUE, "mini"),
      Archivo(TRUE, << N_A_TXT, N_KML >>, TRUE, "mini"),
      Archivo(TRUE, << N_A_TXT, N_DOC_KML >>, FALSE, "mini") }

ArchivoBueno(vocab) == Archivo(TRUE, << N_A_TXT, N_DOC_KML >>, TRUE, vocab)

ArchivosParse ==
    ArchivosMalos
    \cup {ArchivoBueno("puntos"), ArchivoBueno("lineas"), ArchivoBueno("mini")}

\* Coordinate strings of the documents.
T_PUNTO == << "2", ",", "1" >>

T_MALO == << "x" >>

T_LINEA_A == << "1", ",", "2", " ", "x", " ", "2", ",", "1" >>

T_LINEA_B == << "1", ",", "1", ",", "0" >>

\* The <name> elements the folders of a document may carry.
NombresCarpeta(vocab) ==
    CASE vocab = "puntos" ->
             { Elem(<< "C", "A", "J", "A", "S", " ", "N", "A", "P" >>),
               Elem(<< "C", "a", "j", "a", "s", " ", "H", "u", "b" >>),
               Elem(<< "C", "A", "J", "A", "S", "_", "N", "A", "P" >>),
               Elem(<< "N", "A", "P" >>),
               Elem(<< "F", "o", "s", "c" >>),
               Elem(<< " ", "N", "o", "d", "o" >>),
               Elem(<< "Z", "o", "n", "a" >>) }
      [] vocab = "lineas" ->
             { Elem(<< "C", "a", "b", "l", "e", "s", " ", "T", "r", "o", "n", "c", "a", "l", "e", "s" >>),
               Elem(<< "D", "e", "r", "i", "v" >>),
               Elem(<< "P", "R", "E", "C", "O" >>),
               Elem(<< "Z", "o", "n", "a" >>) }
      [] OTHER ->
             { Elem(<< "N", "A", "P" >>), None }

Geometria(point, lines) == [point |-> point, lines |-> lines]

Coordinates(s) == [coordinates |-> Elem(s)]

\* The geometries of the placemarks of a document: its first Point and its
\* LineStrings.
Geometrias(vocab) ==
    CASE vocab = "puntos" ->
             { Geometria(Coordinates(T_PUNTO), << >>),
               Geometria(Coordinates(T_MALO), << >>) }
      [] vocab = "lineas" ->
             { Geometria(None, << Coordinates(T_LINEA_A) >>),
               Geometria(None, << Coordinates(T_MALO) >>),
               Geometria(None, << Coordinates(T_LINEA_A),
                                  Coordinates(T_LINEA_B) >>),
               Geometria(None, << Coordinates(T_MALO),
                                  Coordinates(T_LINEA_B) >>),
               Geometria(None, << >>) }
      [] OTHER ->
             { Geometria(Coordinates(T_PUNTO), << >>),
               Geometria(None, << Coordinates(T_LINEA_B) >>),
               Geometria(Coordinates(T_PUNTO), << Coordinates(T_LINEA_B) >>),
               Geometria([coordinates |-> None],
                         << Coordinates(T_LINEA_B) >>) }

NombresPlacemark(vocab) ==
    CASE vocab = "puntos" ->
             { Elem(<< "B", "o", "x", "1" >>), Elem(<< "N", "A", "P" >>), Elem(<< "H", "u", "b" >>) }
      [] vocab = "lineas" ->
             { Elem(<< "C", "1" >>), Elem(<< "p", "r", "e", "c", "o", " ", "7" >>) }
      [] OTHER ->
             { Elem(<< "B", "o", "x", "1" >>) }

Placemarks(vocab) ==
    { [name |-> n, point |-> g.point, lines |-> g.lines] :
          n \in NombresPlacemark(vocab), g \in Geometrias(vocab) }

\* with zipfile.ZipFile(file_obj) as zf: raises BadZipFile on bytes that
\* are no zip archive.
OpenZip ==
    /\ pc = "open_zip"
    /\ IF file_obj.zip_ok
       THEN pc' = "find_kml" /\ exc' = exc
       ELSE pc' = "raised" /\ exc' = "BadZipFile"
    /\ UNCHANGED << budgetVars, coordVars, file_obj, data, stack, pm, p,
                    n_pm, ret, sessionVars, histVars, geoVars >>

\* The scan for the first .kml entry, the ValueError when there is none,
\* and zf.read(kml_name).
FindKml ==
    /\ pc = "find_kml"
    /\ IF kml_name_de(file_obj.names) = << >>
       THEN pc' = "raised" /\ exc' = "ValueError"
       ELSE pc' = "parse_xml" /\ exc' = exc
    /\ UNCHANGED << budgetVars, coordVars, file_obj, data, stack, pm, p,
                    n_pm, ret, sessionVars, histVars, geoVars >>

\* root = ET.fromstring(kml_bytes): raises ParseError on a payload that is
\* not well-formed; then document = root.find("k:Document") or root.
ParseXml ==
    /\ pc = "parse_xml"
    /\ IF file_obj.xml_ok
       THEN pc' = "walk" /\ exc' = exc
       ELSE pc' = "raised" /\ exc' = "ParseError"
    /\ UNCHANGED << budgetVars, coordVars, file_obj, data, stack, pm, p,
                    n_pm, ret, sessionVars, histVars, geoVars >>

\* A call walk_folder(folder, path): from the loop over the folders of the
\* document (path "") or from the loop over the subfolders of the folder
\* being walked, which has then left its loop over the placemarks.  The
\* folder met is any the vocabulary allows.
WalkFolder ==
    /\ pc = "walk"
    /\ Len(stack) < MaxDepth
    /\ \E name_elem \in NombresCarpeta(file_obj.vocab) :
           LET path == IF stack = << >> THEN << >>
                       ELSE stack[Len(stack)].path
               caller == IF stack = << >> THEN << >>
                         ELSE [stack EXCEPT ![Len(stack)].fase = "folders"]
           IN  stack' = Append(caller,
                               [ path |-> new_path_de(path, get_text(name_elem)),
                                 fase |-> "placemarks" ])
    /\ pm' = None
    /\ p' = << >>
    /\ UNCHANGED << budgetVars, coordVars, pc, file_obj, data, n_pm, ret, exc,
                    sessionVars, histVars, geoVars >>

\* One iteration of the loop over the placemarks of the folder being
\* walked; the placemark met is any the vocabulary allows.
Placemark ==
    /\ pc = "walk"
    /\ stack /= << >>
    /\ stack[Len(stack)].fase = "placemarks"
    /\ n_pm < MaxPlacemarks
    /\ \E pmk \in Placemarks(file_obj.vocab) :
           /\ pm' = pmk
           /\ p' = p_de(stack[Len(stack)].path, pmk)
           /\ data' = procesar_placemark(data, stack[Len(stack)].path, pmk)
    /\ n_pm' = n_pm + 1
    /\ UNCHANGED << budgetVars, coordVars, pc, file_obj, stack, ret, exc,
                    sessionVars, histVars, geoVars >>

\* walk_folder returns: no placemark and no subfolder is left.
ReturnFolder ==
    /\ pc = "walk"
    /\ stack /= << >>
    /\ stack' = SubSeq(stack, 1, Len(stack) - 1)
    /\ pm' = None
    /\ p' = << >>
    /\ UNCHANGED << budgetVars, coordVars, pc, file_obj, data, n_pm, ret, exc,
                    sessionVars, histVars, geoVars >>

\* return data
ReturnData ==
    /\ pc = "walk"
    /\ stack = << >>
    /\ ret' = data
    /\ pc' = "returned"
    /\ UNCHANGED << budgetVars, coordVars, file_obj, data, stack, pm, p,
                    n_pm, exc, sessionVars, histVars, geoVars >>

InitParse ==
    /\ BudgetIdle
    /\ CoordsIdle
    /\ SessionIdle
    /\ HistIdle
    /\ GeoIdle
    /\ pc = "open_zip"
    /\ file_obj \in ArchivosParse
    /\ data = data_vacio
    /\ stack = << >>
    /\ pm = None
    /\ p = << >>
    /\ n_pm = 0
    /\ ret = None
    /\ exc = "none"

NextParse ==
    \/ OpenZip
    \/ FindKml
    \/ ParseXml
    \/ WalkFolder
    \/ Placemark
    \/ ReturnFolder
    \/ ReturnData

SpecParse == InitParse /\ [][NextParse]_vars

\* ------------------------------------------------- claims on the parser

\* The placemark has a Point whose coordinates give at least one pair.
PuntoValido(pmk) ==
    /\ pmk /= None
    /\ pmk.point /= None
    /\ parse_coordinates(get_text(pmk.point.coordinates)) /= << >>

\* The entity a placemark with a valid Point is stored as.
PuntoDe(pmk) ==
    LET c == parse_coordinates(get_text(pmk.point.coordinates))
    IN  [name |-> get_text(pmk.name), lat |-> c[1][1], lon |-> c[1][2]]

\* The placemark has no Point, and the LineString the parser reads gives
\* at least one pair.
LineaValida(pmk) ==
    /\ pmk /= None
    /\ pmk.point = None
    /\ pmk.lines /= << >>
    /\ parse_coordinates(get_text(pmk.lines[1].coordinates)) /= << >>

\* The entity a placemark with a valid line is stored as.
CableDe(pmk) ==
    [ name |-> get_text(pmk.name),
      coords |-> parse_coordinates(get_text(pmk.lines[1].coordinates)) ]

\* Folder path + "/" + placemark name (the name alone under an empty
\* folder path), upper-cased.
ItemPath(path, name) ==
    Upper(IF path = << >> THEN name ELSE path \o << "/" >> \o name)

\* The path of the folder being walked.
FolderPath == stack[Len(stack)].path

\* The rule table of the point branch, in its order.
ReglasPunto == << "cajas_nap", "cajas_hub", "botellas", "nodo" >>

CumplePunto(q, regla) ==
    CASE regla = "cajas_nap" -> es_caja_nap(q)
      [] regla = "cajas_hub" -> es_caja_hub(q)
      [] regla = "botellas" -> es_botella(q)
      [] regla = "nodo" -> es_nodo(q)

\* The collection of the first rule of the table that q matches, "nodo"
\* when it matches none.
PrimeraReglaPunto(q) ==
    LET hits == {i \in 1..Len(ReglasPunto) : CumplePunto(q, ReglasPunto[i])}
    IN  IF hits = {} THEN "nodo"
        ELSE ReglasPunto[CHOOSE i \in hits : \A j \in hits : i <= j]

\* C3: a point placemark with a valid coordinate is appended to the
\* collection of the first rule its upper-cased item path matches, in the
\* order NAP, HUB, FOSC/BOTELLA, NODO, and to the nodes when it matches
\* none; no other collection changes.
C3_PointPrecedence ==
    [][ PuntoValido(pm') =>
            /\ p' = ItemPath(FolderPath, get_text(pm'.name))
            /\ data' = [data EXCEPT ![PrimeraReglaPunto(p')] =
                                        Append(@, PuntoDe(pm'))] ]_vars

\* A point whose path holds both "CAJAS HUB" and "CAJAS NAP" was stored as
\* a NAP box and not as a HUB box.
C3_Witness ==
    /\ PuntoValido(pm)
    /\ Contains(p, S_CAJAS_NAP)
    /\ Contains(p, S_CAJAS_HUB)
    /\ data.cajas_nap = << PuntoDe(pm) >>
    /\ data.cajas_hub = << >>

\* The "/"-separated segments of a path.
Segments(q) == SplitOn(q, "/")

HasSegment(q, seg) == \E i \in 1..Len(Segments(q)) : Segments(q)[i] = seg

\* C4: a point placemark with a valid coordinate whose upper-cased item
\* path has a segment exactly "NAP" is stored as a NAP box, and one with a
\* segment exactly "HUB" and no NAP match as a HUB box, wherever the
\* segment stands: first, middle or last.
C4_SegmentAnyPosition ==
    [][ PuntoValido(pm') =>
            /\ HasSegment(p', << "N", "A", "P" >>) =>
                   data'.cajas_nap = Append(data.cajas_nap, PuntoDe(pm'))
            /\ (HasSegment(p', << "H", "U", "B" >>) /\ ~es_caja_nap(p')) =>
                   data'.cajas_hub = Append(data.cajas_hub, PuntoDe(pm')) ]_vars

\* The name of the folder the placemark sits in.
CarpetaPadre == Segments(FolderPath)[Len(Segments(FolderPath))]

N_BOX1 == << "B", "o", "x", "1" >>

N_CAJAS_NAP_GUION == << "C", "A", "J", "A", "S", "_", "N", "A", "P" >>

\* C5, as claimed: a point placemark "Box1" with a valid coordinate in a
\* folder named "CAJAS_NAP" (underscore), at any depth, becomes an entity
\* "Box1" of the NAP boxes and of no other collection.
C5_UnderscoreFolder ==
    [][ ( /\ PuntoValido(pm')
          /\ get_text(pm'.name) = N_BOX1
          /\ CarpetaPadre = N_CAJAS_NAP_GUION ) =>
            data' = [data EXCEPT !.cajas_nap = Append(@, PuntoDe(pm'))] ]_vars

\* C5, amended: in a folder named "CAJAS NAP" (with a space), at any
\* depth, "Box1" becomes an entity of the NAP boxes and of no other
\* collection; in a top-level folder named "CAJAS_NAP" (underscore) it
\* becomes a node.
C5_SpaceFolder ==
    [][ ( /\ PuntoValido(pm')
          /\ get_text(pm'.name) = N_BOX1 ) =>
            /\ CarpetaPadre = S_CAJAS_NAP =>
                   data' = [data EXCEPT !.cajas_nap = Append(@, PuntoDe(pm'))]
            /\ FolderPath = N_CAJAS_NAP_GUION =>
                   data' = [data EXCEPT !.nodo = Append(@, PuntoDe(pm'))] ]_vars

\* "Box1" in a folder "CAJAS NAP" that is itself inside another folder was
\* stored as a NAP box.
C5_Witness ==
    /\ PuntoValido(pm)
    /\ get_text(pm.name) = N_BOX1
    /\ Len(stack) = 2
    /\ CarpetaPadre = S_CAJAS_NAP
    /\ data.cajas_nap = << PuntoDe(pm) >>
    /\ data.nodo = << >>

\* The rule table of the line branch, in its order.
ReglasCable ==
    << [clave |-> S_TRONCAL, coleccion |-> "cables_troncales"],
       [clave |-> S_DERIV, coleccion |-> "cables_derivaciones"],
       [clave |-> S_PRECO, coleccion |-> "cables_preconect"] >>

\* The collection of the first rule whose keyword q contains,
\* "cables_troncales" when it contains none.
PrimeraReglaCable(q) ==
    LET hits == {i \in 1..Len(ReglasCable) : Contains(q, ReglasCable[i].clave)}
    IN  IF hits = {} THEN "cables_troncales"
        ELSE ReglasCable[CHOOSE i \in hits : \A j \in hits : i <= j].coleccion

\* C6: a line placemark whose coordinates give at least one pair is
\* appended to the collection of the first keyword its upper-cased item
\* path contains, in the order TRONCAL, DERIV, PRECO, and to the trunk
\* cables when it contains none; no other collection changes.
C6_CablePrecedence ==
    [][ LineaValida(pm') =>
            /\ p' = ItemPath(FolderPath, get_text(pm'.name))
            /\ data' = [data EXCEPT ![PrimeraReglaCable(p')] =
                                        Append(@, CableDe(pm'))] ]_vars

\* A line whose path holds both "DERIV" and "PRECO", and not "TRONCAL",
\* was stored as a distribution cable.
C6_Witness ==
    /\ LineaValida(pm)
    /\ Contains(p, S_DERIV)
    /\ Contains(p, S_PRECO)
    /\ ~Contains(p, S_TRONCAL)
    /\ data.cables_derivaciones = << CableDe(pm) >>
    /\ data.cables_preconect = << >>

CablesCols == {"cables_troncales", "cables_derivaciones", "cables_preconect"}

\* The pairs of the k-th LineString of a placemark.
SubPath(pmk, k) == parse_coordinates(get_text(pmk.lines[k].coordinates))

\* C7: of a line placemark with several LineStrings, the coordinates of
\* every one are stored: the placemark adds a cable that holds every pair
\* of every sub-path.
C7_AllSubPaths ==
    [][ ( /\ pm' /= None
          /\ pm'.point = None
          /\ \E k \in 1..Len(pm'.lines) : SubPath(pm', k) /= << >> ) =>
            \E c \in CablesCols :
                /\ Len(data'[c]) = Len(data[c]) + 1
                /\ \A k \in 1..Len(pm'.lines) :
                       \A i \in 1..Len(SubPath(pm', k)) :
                           \E j \in 1..Len(data'[c][Len(data'[c])].coords) :
                               data'[c][Len(data'[c])].coords[j]
                                   = SubPath(pm', k)[i] ]_vars

PuntosCols == {"nodo", "cajas_hub", "cajas_nap", "botellas"}

\* The placemark has a geometry with at least one well-formed coordinate
\* token: its Point when it has one (C17), else one of its LineStrings.
Aceptado(pmk) ==
    IF pmk.point /= None
    THEN parse_coordinates(get_text(pmk.point.coordinates)) /= << >>
    ELSE \E k \in 1..Len(pmk.lines) : SubPath(pmk, k) /= << >>

\* The collections a placemark may be stored in: the point collections for
\* a Point, the cable collections for a line.
ColsDe(pmk) == IF pmk.point /= None THEN PuntosCols ELSE CablesCols

\* C16: the seven collections partition the accepted placemarks: a
\* placemark of a folder with a Point or a LineString and at least one
\* well-formed coordinate token adds one entity to exactly one collection,
\* of the point collections for a Point and of the cable collections for a
\* line; any other placemark adds nothing; and no stored cable has an
\* empty coordinate sequence.
C16_Partition ==
    [][ (n_pm' = n_pm + 1) =>
            /\ Aceptado(pm') =>
                   \E c \in ColsDe(pm') :
                       /\ Len(data'[c]) = Len(data[c]) + 1
                       /\ \A c2 \in (PuntosCols \cup CablesCols) \ {c} :
                              data'[c2] = data[c2]
            /\ ~Aceptado(pm') => data' = data
            /\ \A c \in CablesCols :
                   \A i \in 1..Len(data'[c]) : data'[c][i].coords /= << >> ]_vars

\* C17: a placemark with a Point is added to no cable collection, also
\* when it has a LineString with valid coordinates; and when its Point has
\* no well-formed coordinate token it is added to no collection at all.
C17_PointBeforeLine ==
    [][ (n_pm' = n_pm + 1 /\ pm'.point /= None) =>
            /\ \A c \in CablesCols : data'[c] = data[c]
            /\ ~PuntoValido(pm') => data' = data ]_vars

\* The first placemark read has a Point and a LineString, both with valid
\* coordinates: it was stored as a point, and no cable was stored.
C17_Witness ==
    /\ n_pm = 1
    /\ PuntoValido(pm)
    /\ pm.lines /= << >>
    /\ SubPath(pm, 1) /= << >>
    /\ \E c \in PuntosCols : data[c] = << PuntoDe(pm) >>
    /\ \A c \in CablesCols : data[c] = << >>

\* ------------------------------------- specification: the script's runs

ArchivosSesion == ArchivosMalos \cup {ArchivoBueno("mini")}

\* What a run that starts with the file f in the uploader finds of the run
\* before it: whether that run left a model in the session, whether the
\* clear button was triggered in it, and whether the uploader held the
\* same file in it.
AntesDe(f) ==
    [modelo |-> kmz_data /= None, limpiado |-> btn_clear, mismo |-> f = kmz_file]

LocalsIdle ==
    /\ file_obj' = None
    /\ data' = data_vacio
    /\ stack' = << >>
    /\ pm' = None
    /\ p' = << >>
    /\ n_pm' = 0
    /\ ret' = None
    /\ exc' = "none"

\* The user puts a file in the uploader: the script runs again.
SubirArchivo ==
    /\ pc = "esperando"
    /\ \E f \in ArchivosSesion : kmz_file' = f /\ antes' = AntesDe(f)
    /\ btn_clear' = FALSE
    /\ pc' = "upload"
    /\ UNCHANGED << budgetVars, coordVars, parseVars, kmz_data, histVars, geoVars >>

\* The user removes the file from the uploader: the script runs again.
QuitarArchivo ==
    /\ pc = "esperando"
    /\ kmz_file /= None
    /\ kmz_file' = None
    /\ antes' = AntesDe(None)
    /\ btn_clear' = FALSE
    /\ pc' = "upload"
    /\ UNCHANGED << budgetVars, coordVars, parseVars, kmz_data, histVars, geoVars >>

\* The user clicks the clear button: the script runs again, st.button
\* returns True in this run, and the uploader holds what it held.
ClickLimpiar ==
    /\ pc = "esperando"
    /\ btn_clear' = TRUE
    /\ antes' = AntesDe(kmz_file)
    /\ pc' = "upload"
    /\ UNCHANGED << budgetVars, coordVars, parseVars, kmz_data, kmz_file,
                    histVars, geoVars >>

\* Any other interaction (a widget of another tab): the script runs again,
\* and the uploader holds what it held.
OtraInteraccion ==
    /\ pc = "esperando"
    /\ btn_clear' = FALSE
    /\ antes' = AntesDe(kmz_file)
    /\ pc' = "upload"
    /\ UNCHANGED << budgetVars, coordVars, parseVars, kmz_data, kmz_file,
                    histVars, geoVars >>

\* if kmz_file is not None: try: ... parsear_kmz_ftth(kmz_file); the call
\* starts with data = the seven empty collections.
UploadHandler ==
    /\ pc = "upload"
    /\ IF kmz_file = None
       THEN pc' = "clear" /\ file_obj' = file_obj /\ data' = data
       ELSE pc' = "open_zip" /\ file_obj' = kmz_file /\ data' = data_vacio
    /\ UNCHANGED << budgetVars, coordVars, stack, pm, p, n_pm, ret, exc,
                    sessionVars, histVars, geoVars >>

\* The except branch with the reset of kmz_data left out.
kmz_data_en_except_sin_reset == kmz_data

\* except Exception as e: st.session_state.kmz_data = None
kmz_data_en_except == None

\* The assignment made only when the session holds no model yet.
kmz_data_tras_parse_si_falta == IF kmz_data = None THEN ret ELSE kmz_data

\* st.session_state.kmz_data = parsear_kmz_ftth(kmz_file): the value
\* assigned.
kmz_data_tras_parse == ret

\* st.session_state.kmz_data = parsear_kmz_ftth(kmz_file)
UploadOk ==
    /\ pc = "returned"
    /\ kmz_data' = kmz_data_tras_parse
    /\ pc' = "clear"
    /\ UNCHANGED << budgetVars, coordVars, parseVars, kmz_file, btn_clear,
                    antes, histVars, geoVars >>

\* except Exception as e: every exception of the parser is caught here.
UploadExcept ==
    /\ pc = "raised"
    /\ kmz_data' = kmz_data_en_except
    /\ pc' = "clear"
    /\ UNCHANGED << budgetVars, coordVars, parseVars, kmz_file, btn_clear,
                    antes, histVars, geoVars >>

\* The clear that gives way to the file the uploader holds.
kmz_data_tras_clear_sin_archivo ==
    IF btn_clear /\ kmz_file = None THEN None ELSE kmz_data

\* if st.button(...): st.session_state.kmz_data = None: kmz_data after
\* the statement.
kmz_data_tras_clear ==
    IF btn_clear THEN None ELSE kmz_data

\* if st.button(...): st.session_state.kmz_data = None
ClearHandler ==
    /\ pc = "clear"
    /\ kmz_data' = kmz_data_tras_clear
    /\ pc' = "panel"
    /\ UNCHANGED << budgetVars, coordVars, parseVars, kmz_file, btn_clear,
                    antes, histVars, geoVars >>

\* The rest of the script only reads kmz_data; the run ends and its locals
\* are gone.
FinRun ==
    /\ pc = "panel"
    /\ pc' = "esperando"
    /\ LocalsIdle
    /\ UNCHANGED << budgetVars, coordVars, sessionVars, histVars, geoVars >>

InitSession ==
    /\ BudgetIdle
    /\ CoordsIdle
    /\ ParseIdle
    /\ SessionIdle
    /\ HistIdle
    /\ GeoIdle
    /\ pc = "esperando"

NextSession ==
    \/ SubirArchivo
    \/ QuitarArchivo
    \/ ClickLimpiar
    \/ OtraInteraccion
    \/ UploadHandler
    \/ OpenZip
    \/ FindKml
    \/ ParseXml
    \/ WalkFolder
    \/ Placemark
    \/ ReturnFolder
    \/ ReturnData
    \/ UploadOk
    \/ UploadExcept
    \/ ClearHandler
    \/ FinRun

SpecSession == InitSession /\ [][NextSession]_vars

\* The archive is no zip archive, or none of its entries has a name that
\* ends in ".kml" in any letter case, or its payload is not well-formed.
ArchivoMalo(f) ==
    \/ ~f.zip_ok
    \/ \A i \in 1..Len(f.names) : ~EndsWith(Lower(f.names[i]), S_DOT_KML)
    \/ ~f.xml_ok

\* C9: in a run whose uploaded archive is no zip archive, has no .kml
\* entry or has a payload that is no XML, the parser never reaches the
\* walk and returns nothing, it ends with an exception, and from the
\* upload handler on to the end of the run kmz_data is None.
C9_AllOrNothing ==
    (kmz_file /= None /\ ArchivoMalo(kmz_file)) =>
        /\ ret = None
        /\ pc \notin {"walk", "returned"}
        /\ data = data_vacio
        /\ pc \in {"clear", "panel"} => kmz_data = None /\ exc /= "none"
        /\ pc = "esperando" => kmz_data = None

\* A run with an archive without any .kml entry reached its end: the
\* parser raised ValueError and the session holds no model.
C9_Witness ==
    /\ pc = "panel"
    /\ kmz_file /= None
    /\ kmz_file.zip_ok
    /\ kmz_file.names /= << >>
    /\ exc = "ValueError"
    /\ kmz_data = None

\* C15: at the end of every run in which the clear button is triggered
\* the session holds no model, also when the upload handler of the same
\* run stored a freshly parsed model before the clear was handled.
C15_ClearWins ==
    (pc \in {"panel", "esperando"} /\ btn_clear) => kmz_data = None

\* A run with the clear button triggered parsed the archive of the
\* uploader with success, and ends without a model.
C15_Witness ==
    /\ pc = "panel"
    /\ btn_clear
    /\ kmz_file /= None
    /\ ret /= None
    /\ kmz_data = None

\* C18: from the except branch on to its end, a run whose archive fails
\* to parse leaves the session without a model, whether or not the run
\* before it had left one.
C18_FailedParseDiscards ==
    ( /\ pc \in {"clear", "panel", "esperando"}
      /\ kmz_file /= None
      /\ ArchivoMalo(kmz_file) ) => kmz_data = None

\* A run whose archive failed to parse, started with a model in the
\* session and without the clear button, is at its end: the model is
\* gone.
C18_Witness ==
    /\ pc = "panel"
    /\ antes.modelo
    /\ ~btn_clear
    /\ kmz_file /= None
    /\ ArchivoMalo(kmz_file)
    /\ exc /= "none"
    /\ kmz_data = None

\* C19: every run in which the uploader holds an archive that parses and
\* the clear button is not triggered ends with the model parsed in that
\* run in the session, whatever the run before had left; so the run after
\* a clear restores the model while the archive is still selected, and a
\* run without a clear ends without a model only when the uploader holds
\* no archive that parses.
C19_FollowsUploader ==
    /\ ( /\ pc = "panel"
         /\ ~btn_clear
         /\ kmz_file /= None
         /\ ~ArchivoMalo(kmz_file) ) => (ret /= None /\ kmz_data = ret)
    /\ (pc = "panel" /\ ~btn_clear /\ kmz_data = None) =>
           (kmz_file = None \/ ArchivoMalo(kmz_file))

\* The run before was a clear and left no model; this run, with the same
\* archive still in the uploader and no clear, ends with the model it
\* parsed.
C19_Witness ==
    /\ pc = "panel"
    /\ ~btn_clear
    /\ antes.limpiado
    /\ ~antes.modelo
    /\ antes.mismo
    /\ kmz_file /= None
    /\ ~ArchivoMalo(kmz_file)
    /\ ret /= None
    /\ kmz_data = ret

\* ------------------------------------------- specification: the histogram

\* Lengths in metres: whole ones at the edges of the buckets, and ones
\* between two whole metres.
Longitudes ==
    { 0, M(50), M(50) + 1, M(51), M(100), M(300), M(300) + 1, M(301) }

ListasHasta(n) == UNION {[1..k -> Longitudes] : k \in 0..n}

\* One iteration of the loop over data["cables_preconect"].
ContarCable ==
    /\ pc = "buckets"
    /\ i_cable <= Len(longitudes)
    /\ LET r == contar_cable(precon_counts, precon_mayor_300,
                             longitudes[i_cable])
       IN  /\ precon_counts' = r.counts
           /\ precon_mayor_300' = r.mayor_300
    /\ i_cable' = i_cable + 1
    /\ UNCHANGED << budgetVars, coordVars, parseVars, sessionVars,
                    longitudes, pc, geoVars >>

\* The loop is over: the metrics are shown.
FinBuckets ==
    /\ pc = "buckets"
    /\ i_cable > Len(longitudes)
    /\ pc' = "metrics"
    /\ UNCHANGED << budgetVars, coordVars, parseVars, sessionVars, histVars, geoVars >>

InitHist ==
    /\ BudgetIdle
    /\ CoordsIdle
    /\ ParseIdle
    /\ SessionIdle
    /\ GeoIdle
    /\ pc = "buckets"
    /\ longitudes \in ListasHasta(MaxCables)
    /\ i_cable = 1
    /\ precon_counts = precon_counts_cero
    /\ precon_mayor_300 = 0

NextHist == ContarCable \/ FinBuckets

SpecHist == InitHist /\ [][NextHist]_vars

RECURSIVE SumCounts(_, _)
SumCounts(counts, k) ==
    IF k = 0 THEN 0
    ELSE counts[buckets_precon[k].label] + SumCounts(counts, k - 1)

\* C10: every preconnectorized cable is counted exactly once, whatever
\* its length: when the loop is over, the six bucket counts plus the
\* overflow count equal the number of cables.
C10_EveryCableCounted ==
    pc = "metrics" =>
        SumCounts(precon_counts, Len(buckets_precon)) + precon_mayor_300
            = Len(longitudes)

\* ------------------------------- specification: the geometry functions

\* Most points of one polyline, and most NAP boxes of one list.
MaxPuntos == 4

MaxNap == 2

\* The points of the model, as [lat, lon] in degrees: three on the
\* equator, and two that lie opposite each other on the globe.
Puntos ==
    { << 0, 0 >>, << 0, 60 >>, << 0, 0 - 60 >>, << 82, 0 >>,
      << 0 - 82, 0 - 180 >> }

Polilineas(n, m) == UNION {[1..k -> Puntos] : k \in n..m}

\* The name of the k-th NAP box of a list.
NombreNap(k) == << "N", Digits[k + 1] >>

\* The lists of NAP boxes, as the parser stores them: {name, lat, lon}.
ListasNap(n) ==
    UNION { { [k \in 1..m |-> [name |-> NombreNap(k),
                                lat |-> q[k][1], lon |-> q[k][2]]] :
                  q \in [1..m -> Puntos] } : m \in 0..n }

\* One call of distancia_haversine_km.
DistanciaHaversineKm ==
    /\ pc = "geo"
    /\ geo_args.fn = "distancia_haversine_km"
    /\ geo_ret' = distancia_haversine_km(geo_args.coords[1][1],
                                         geo_args.coords[1][2],
                                         geo_args.coords[2][1],
                                         geo_args.coords[2][2])
    /\ pc' = "geo_done"
    /\ UNCHANGED << budgetVars, coordVars, parseVars, sessionVars, histVars,
                    geo_args, filas_precon >>

\* One call of longitud_total_km.
LongitudTotalKm ==
    /\ pc = "geo"
    /\ geo_args.fn = "longitud_total_km"
    /\ geo_ret' = longitud_total_km(geo_args.coords)
    /\ pc' = "geo_done"
    /\ UNCHANGED << budgetVars, coordVars, parseVars, sessionVars, histVars,
                    geo_args, filas_precon >>

\* One call of nap_mas_cercana, with the point coords[0] as (lat, lon).
NapMasCercana ==
    /\ pc = "geo"
    /\ geo_args.fn = "nap_mas_cercana"
    /\ geo_ret' = nap_mas_cercana(geo_args.coords[1][1], geo_args.coords[1][2],
                                  geo_args.cajas_nap)
    /\ pc' = "geo_done"
    /\ UNCHANGED << budgetVars, coordVars, parseVars, sessionVars, histVars,
                    geo_args, filas_precon >>

GeoArgs(fn, coords_, cajas_nap) ==
    [fn |-> fn, coords |-> coords_, cajas_nap |-> cajas_nap]

InitGeo ==
    /\ BudgetIdle
    /\ CoordsIdle
    /\ ParseIdle
    /\ SessionIdle
    /\ HistIdle
    /\ pc = "geo"
    /\ geo_args \in
           { GeoArgs("distancia_haversine_km", c, << >>) :
                 c \in Polilineas(2, 2) }
           \cup { GeoArgs("longitud_total_km", c, << >>) :
                      c \in Polilineas(0, MaxPuntos) }
           \cup { GeoArgs("nap_mas_cercana", c, l) :
                      c \in Polilineas(1, 1), l \in ListasNap(MaxNap) }
    /\ geo_ret = None
    /\ filas_precon = << >>

NextGeo == DistanciaHaversineKm \/ LongitudTotalKm \/ NapMasCercana

SpecGeo == InitGeo /\ [][NextGeo]_vars

\* The distance between two points, when the function returns one.
Dist(q, r) == distancia_haversine_km(q[1], q[2], r[1], r[2]).val

\* The point of a NAP box.
PuntoNap(nap) == << nap.lat, nap.lon >>

\* C11: nap_mas_cercana returns (None, None) iff the list is empty;
\* otherwise it returns a box of the list that no other box is nearer to
\* the point than, with exactly its distance, and of several boxes at the
\* least distance the first of the list.
C11_NearestCandidate ==
    (pc = "geo_done" /\ geo_args.fn = "nap_mas_cercana") =>
        LET q == geo_args.coords[1]
            l == geo_args.cajas_nap
        IN  /\ geo_ret.exc = "none"
            /\ (geo_ret.val = << None, None >>) <=> (l = << >>)
            /\ l /= << >> =>
                   \E k \in 1..Len(l) :
                       /\ geo_ret.val[1] = l[k]
                       /\ geo_ret.val[2] = Num(Dist(q, PuntoNap(l[k])))
                       /\ \A j \in 1..Len(l) :
                              Dist(q, PuntoNap(l[k])) <= Dist(q, PuntoNap(l[j]))
                       /\ \A j \in 1..(k - 1) :
                              Dist(q, PuntoNap(l[k])) < Dist(q, PuntoNap(l[j]))

\* The sum of the first k distances between consecutive points of c, taken
\* in order.
RECURSIVE SumaTramos(_, _)
SumaTramos(c, k) ==
    IF k = 0 THEN 0 ELSE FAdd(SumaTramos(c, k - 1), Dist(c[k], c[k + 1]))

\* The length the claim gives a polyline.
Largo(c) == IF Len(c) < 2 THEN 0 ELSE SumaTramos(c, Len(c) - 1)

\* C13: longitud_total_km returns 0 for fewer than two points and the sum
\* of the n-1 distances between consecutive points, taken in order, for
\* n >= 2 points; and the length of a polyline is the sum of the lengths
\* of the two pieces it is cut into at any of its points.
C13_SumOfLegs ==
    (pc = "geo_done" /\ geo_args.fn = "longitud_total_km") =>
        LET c == geo_args.coords
        IN  /\ geo_ret.exc = "none"
            /\ Len(c) < 2 => geo_ret.val = 0
            /\ Len(c) >= 2 => geo_ret.val = SumaTramos(c, Len(c) - 1)
            /\ \A k \in 1..Len(c) :
                   geo_ret.val = FAdd(Largo(SubSeq(c, 1, k)),
                                      Largo(SubSeq(c, k, Len(c))))

\* C14: distancia_haversine_km keeps the term a within [0, 1] before the
\* square roots, so that for every pair of points, two opposite points of
\* the globe included, it returns a distance and raises nothing.
C14_NeverRaises ==
    (pc = "geo_done" /\ geo_args.fn = "distancia_haversine_km") =>
        /\ geo_ret.exc = "none"
        /\ geo_ret.val >= 0

\* --------------------------- specification: tab 3, the cable report

N_C1 == << "C", "1" >>

\* "Sin NAP cercana"
S_SIN_NAP ==
    << "S", "i", "n", " ", "N", "A", "P", " ", "c", "e", "r", "c", "a", "n", "a" >>

\* The polylines of the cables of the report: a stored cable has at least
\* one coordinate; the ones of two start in the north.
PolilineasReporte ==
    Polilineas(1, 1) \cup { << << 82, 0 >>, q >> : q \in Puntos }

\* The preconnectorized cables of a model.
ListasCable(n) ==
    UNION { { [k \in 1..m |-> [name |-> N_C1, coords |-> c[k]]] :
                  c \in [1..m -> PolilineasReporte] } : m \in 0..n }

\* The models tab 3 may find in the session, and no model.
ModelosReporte ==
    { [data_vacio EXCEPT !.cajas_nap = l, !.cables_preconect = cs] :
          l \in ListasNap(MaxNap), cs \in ListasCable(MaxCables) }
    \cup {None}

\* if not st.session_state.kmz_data: st.info(...)
Tab3SinModelo ==
    /\ pc = "tab3"
    /\ kmz_data = None
    /\ pc' = "tab3_done"
    /\ UNCHANGED << budgetVars, coordVars, parseVars, sessionVars, histVars,
                    geoVars >>

\* The totals at the top of tab 3: longitud_total_km of every cable of the
\* model; an exception of one of the calls ends the run.
Totales ==
    /\ pc = "tab3"
    /\ kmz_data /= None
    /\ LET cables == kmz_data.cables_troncales
                         \o kmz_data.cables_derivaciones
                         \o kmz_data.cables_preconect
       IN  IF \E k \in 1..Len(cables) :
                  longitud_total_km(cables[k].coords).exc /= "none"
           THEN pc' = "raised_totales"
           ELSE pc' = "precon_detail"
    /\ UNCHANGED << budgetVars, coordVars, parseVars, sessionVars, histVars,
                    geoVars >>

\* One iteration of "for cable in data["cables_preconect"]" of the detail
\* of the preconnectorized cables: the row of the cable (its third column,
\* the rounded length, is left out), or the exception that ends the run.
FilaPrecon ==
    /\ pc = "precon_detail"
    /\ Len(filas_precon) < Len(kmz_data.cables_preconect)
    /\ LET cable == kmz_data.cables_preconect[Len(filas_precon) + 1]
           nombre_cable == cable.name
           coords_ == cable.coords
           long_km == longitud_total_km(coords_)
           fin == coords_[Len(coords_)]
           r == nap_mas_cercana(fin[1], fin[2], kmz_data.cajas_nap)
           nap_dest == r.val[1]
           nombre_nap == IF nap_dest /= None THEN nap_dest.name ELSE S_SIN_NAP
       IN  IF long_km.exc /= "none" \/ r.exc /= "none"
           THEN pc' = "raised_fila" /\ filas_precon' = filas_precon
           ELSE /\ pc' = pc
                /\ filas_precon' =
                       Append(filas_precon,
                              [cable |-> nombre_cable, nap_destino |-> nombre_nap])
    /\ UNCHANGED << budgetVars, coordVars, parseVars, sessionVars, histVars,
                    geo_args, geo_ret >>

\* The loop is over, or the model has no preconnectorized cable: the table,
\* or the notice that there is none, is shown.
FinPrecon ==
    /\ pc = "precon_detail"
    /\ Len(filas_precon) = Len(kmz_data.cables_preconect)
    /\ pc' = "tab3_done"
    /\ UNCHANGED << budgetVars, coordVars, parseVars, sessionVars, histVars,
                    geoVars >>

InitReport ==
    /\ BudgetIdle
    /\ CoordsIdle
    /\ ParseIdle
    /\ HistIdle
    /\ GeoIdle
    /\ kmz_data \in ModelosReporte
    /\ kmz_file = None
    /\ btn_clear = FALSE
    /\ antes = AntesNada
    /\ pc = "tab3"

NextReport == Tab3SinModelo \/ Totales \/ FilaPrecon \/ FinPrecon

SpecReport == InitReport /\ [][NextReport]_vars

\* C12: every preconnectorized cable gets a destination in the report: the
\* name of a NAP box that no other is nearer to the last coordinate of the
\* cable than, and the label "Sin NAP cercana" iff the model has no NAP
\* box.
C12_Destination ==
    /\ pc /= "raised_fila"
    /\ pc = "tab3_done" /\ kmz_data /= None =>
           Len(filas_precon) = Len(kmz_data.cables_preconect)
    /\ \A k \in 1..Len(filas_precon) :
           LET coords_ == kmz_data.cables_preconect[k].coords
               fin == coords_[Len(coords_)]
               l == kmz_data.cajas_nap
           IN  /\ (filas_precon[k].nap_destino = S_SIN_NAP) <=> (l = << >>)
               /\ l /= << >> =>
                      \E j \in 1..Len(l) :
                          /\ filas_precon[k].nap_destino = l[j].name
                          /\ \A i \in 1..Len(l) :
                                 Dist(fin, PuntoNap(l[j])) <= Dist(fin, PuntoNap(l[i]))

====
